---- MODULE Spec2Model ----
(***************************************************************************)
(* Tag-group backup/restore of leanix_admin/tag_group.py.                  *)
(*                                                                         *)
(* The remote service holds tag groups and tags.  A restore run fetches    *)
(* the current tag groups (one listTags query), reads the desired tag      *)
(* groups from the snapshot and issues create/update/delete mutations.     *)
(* Every remote call is one step of the model and may fail.                *)
(*                                                                         *)
(* Python values: a dict is a record (a key that is missing is a field     *)
(* that is missing), a list is a sequence, None is the value None below,   *)
(* a null object reference is the empty function.                          *)
(***************************************************************************)
EXTENDS Naturals, Sequences, FiniteSets, TLC

VARIABLES
    remoteGroups,   \* the service's tag groups: records with an id
    remoteTags,     \* the service's tags: records with an id and a tagGroupId
    nextId,         \* the next id the service hands out
    disk,           \* the snapshot 'tag-groups' (the desired tag groups)
    pc,             \* where the running action is
    run,            \* number of runs of an action started
    current,        \* current_tag_groups of do_perform
    desired,        \* desired_tag_groups of do_perform (ids adopted in place)
    curTags,        \* current_tags handed to _restore_tags
    i,              \* index of the loop over the groups (desired or current)
    j,              \* index of the loop over the tags
    calls,          \* every remote call issued so far, in order
    atStart,        \* the service's records and the snapshot when the run began
    response,       \* FetchSpec: the edges of a listTags response
    fetched,        \* FetchSpec: what _fetch_tag_groups returned for them
    refetched       \* FetchSpec: what it returned with the other erase_id

vars == <<remoteGroups, remoteTags, nextId, disk, pc, run, current, desired,
          curTags, i, j, calls, atStart, response, fetched, refetched>>

----------------------------------------------------------------------------
(* Values *)

\* Python's None (JSON null) for a scalar field
None == "None"

\* a null object reference (JSON null where an object is expected)
NullRef == <<>>

OTHER_TAGS == [id |-> None, name |-> "__OTHER_TAGS__"]

\* dict access
Get(d, k, default) == IF k \in DOMAIN d THEN d[k] ELSE default
Put(d, k, v) == [f \in DOMAIN d \cup {k} |-> IF f = k THEN v ELSE d[f]]

\* mutant: the key is left in the dict
del_nothing(d, k) == d

Del(d, k) == [f \in DOMAIN d \ {k} |-> d[f]]

\* mutant: only None is falsy, '' counts as a value
truthy_unless_none(v) == v # None

\* Python truthiness of a scalar: None and '' are falsy
Truthy(v) == v # None /\ v # ""

\* Python truthiness of an object reference: null and {} are falsy
TruthyObj(o) == DOMAIN o # {}

\* The names of the model in the order of Python's string comparison
\* (code points: upper case < '_' < lower case).
NameOrder == <<"High", "Legacy", "Low", "Risk", "__OTHER_TAGS__", "high">>

Rank(name) == CHOOSE n \in 1..Len(NameOrder) : NameOrder[n] = name

\* a <= b for Python strings
StrLeq(a, b) == Rank(a) <= Rank(b)

\* mutant: the synthetic group is taken for a real one
is_real_always(tag_group) == TRUE

is_real_tag_group(tag_group) == tag_group.name # OTHER_TAGS.name

\* mutant: the search never finds a match
find_nothing(needle, haystack) == 0

\* mutant: the search returns the last record of the name
find_last(needle, haystack) ==
    IF \E n \in 1..Len(haystack) : haystack[n].name = needle.name
    THEN CHOOSE n \in 1..Len(haystack) :
            /\ haystack[n].name = needle.name
            /\ \A m \in (n + 1)..Len(haystack) : haystack[m].name # needle.name
    ELSE 0

\* the index of the first record of haystack with the needle's name, 0 if none
FindIndex(needle, haystack) ==
    IF \E n \in 1..Len(haystack) : haystack[n].name = needle.name
    THEN CHOOSE n \in 1..Len(haystack) :
            /\ haystack[n].name = needle.name
            /\ \A m \in 1..(n - 1) : haystack[m].name # needle.name
    ELSE 0

\* find_by_name returns a record or None; Found says which
Found(needle, haystack) == FindIndex(needle, haystack) # 0

find_by_name(needle, haystack) == haystack[FindIndex(needle, haystack)]

----------------------------------------------------------------------------
(* _fetch_tag_groups *)

\* mutant: the record goes to the end of the list
insert_last(xs, x) == Append(xs, x)

\* one insertion of a stable sort by name: x goes behind every record of the
\* sorted xs whose name is <= its own
InsertByName(xs, x) ==
    LET before == {n \in 1..Len(xs) : StrLeq(xs[n].name, x.name)}
        k == Cardinality(before)
    IN  SubSeq(xs, 1, k) \o <<x>> \o SubSeq(xs, k + 1, Len(xs))

\* mutant: the list is left in the order of the response
unsorted(xs) == xs

\* sorted(xs, key=by_name)
RECURSIVE SortedByName(_)
SortedByName(xs) ==
    IF xs = <<>> THEN <<>>
    ELSE InsertByName(SortedByName(SubSeq(xs, 1, Len(xs) - 1)), xs[Len(xs)])

\* one iteration of the loop over the edges; lookup is tag_group_lookup
FetchEdge(lookup, tag_edge, erase_id) ==
    LET node == tag_edge.node
        tag_group0 == IF TruthyObj(node.tagGroup) THEN node.tagGroup ELSE OTHER_TAGS
        tag1 == IF erase_id THEN Del(node, "id") ELSE node
        tag_group1 == IF erase_id THEN Del(tag_group0, "id") ELSE tag_group0
        tag == Del(tag1, "tagGroup")
        group_name == tag_group1.name
        known_tags == IF group_name \in DOMAIN lookup
                      THEN lookup[group_name].tags ELSE <<>>
        tag_group == Put(tag_group1, "tags", SortedByName(Append(known_tags, tag)))
    IN  [n \in DOMAIN lookup \cup {group_name} |->
            IF n = group_name THEN tag_group ELSE lookup[n]]

\* mutant: the loop stops after the first edge
fetch_first_edge_only(lookup, edges, erase_id) ==
    IF edges = <<>> THEN lookup ELSE FetchEdge(lookup, Head(edges), erase_id)

RECURSIVE FetchLoop(_, _, _)
FetchLoop(lookup, edges, erase_id) ==
    IF edges = <<>> THEN lookup
    ELSE FetchLoop(FetchEdge(lookup, Head(edges), erase_id), Tail(edges), erase_id)

\* the values of a dict whose keys are names, sorted by name
RECURSIVE SortedValues(_)
SortedValues(lookup) ==
    IF DOMAIN lookup = {} THEN <<>>
    ELSE LET last == CHOOSE n \in DOMAIN lookup :
                        \A m \in DOMAIN lookup : StrLeq(m, n)
         IN  SortedValues([n \in DOMAIN lookup \ {last} |-> lookup[n]])
                \o <<lookup[last]>>

\* _fetch_tag_groups, given the edges of the response
FetchTagGroups(edges, erase_id) ==
    SortedValues(FetchLoop(NullRef, edges, erase_id))

----------------------------------------------------------------------------
(* The patches of the update mutations *)

\* ", ".join of the quoted items
RECURSIVE JoinQuoted(_)
JoinQuoted(items) ==
    IF items = <<>> THEN ""
    ELSE IF Len(items) = 1 THEN "\"" \o items[1] \o "\""
    ELSE "\"" \o items[1] \o "\", " \o JoinQuoted(Tail(items))

\* json.dumps of a list of strings
JsonDumps(items) == "[" \o JoinQuoted(items) \o "]"

\* the keys tag_group_patches reads with tg[...]: a missing one is a KeyError
GroupPatchKeys == {"shortName", "description", "mode", "restrictToFactSheetTypes"}

tag_group_patches(tg) ==
    LET short_name == tg.shortName
        description == tg.description
    IN  << [op |-> "replace", path |-> "/mode", value |-> tg.mode],
           [op |-> "replace", path |-> "/restrictToFactSheetTypes",
            value |-> JsonDumps(tg.restrictToFactSheetTypes)],
           IF Truthy(short_name)
           THEN [op |-> "replace", path |-> "/shortName", value |-> short_name]
           ELSE [op |-> "remove", path |-> "/shortName"],
           IF Truthy(description)
           THEN [op |-> "replace", path |-> "/description", value |-> description]
           ELSE [op |-> "remove", path |-> "/description"] >>

\* the keys tag_patches reads with t[...]
TagPatchKeys == {"description", "color", "status"}

tag_patches(t) ==
    LET description == t.description
    IN  << IF Truthy(description)
           THEN [op |-> "replace", path |-> "/description", value |-> description]
           ELSE [op |-> "remove", path |-> "/description"],
           [op |-> "replace", path |-> "/color", value |-> t.color],
           [op |-> "replace", path |-> "/status", value |-> t.status] >>

----------------------------------------------------------------------------
(* The remote service behind _exec_graphql *)

RftValues == {<<>>, <<"Application">>}

\* the service reads the serialized list back
JsonLoads(text) == CHOOSE items \in RftValues : JsonDumps(items) = text

NewId == "id-" \o ToString(nextId)

GroupById(id) == CHOOSE g \in remoteGroups : g.id = id
TagById(id) == CHOOSE t \in remoteTags : t.id = id
GroupExists(id) == \E g \in remoteGroups : g.id = id
TagExists(id) == \E t \in remoteTags : t.id = id

\* every sequence that lists the elements of S once each
RECURSIVE SeqsOf(_)
SeqsOf(S) ==
    IF S = {} THEN {<<>>}
    ELSE UNION {{<<x>> \o s : s \in SeqsOf(S \ {x})} : x \in S}

\* the node of a listTags edge for a tag of the service
TagNode(t) ==
    [id |-> t.id, name |-> t.name, description |-> t.description,
     color |-> t.color, status |-> t.status,
     tagGroup |-> IF t.tagGroupId = None THEN NullRef ELSE GroupById(t.tagGroupId)]

\* the edge lists a listTags query may return: one edge per tag, in any order
ListTagsEdges ==
    {[n \in DOMAIN s |-> [node |-> TagNode(s[n])]] : s \in SeqsOf(remoteTags)}

\* the field a patch path names
PathField(path) ==
    CASE path = "/mode" -> "mode"
      [] path = "/restrictToFactSheetTypes" -> "restrictToFactSheetTypes"
      [] path = "/shortName" -> "shortName"
      [] path = "/description" -> "description"
      [] path = "/color" -> "color"
      [] path = "/status" -> "status"

ApplyPatch(rec, patch) ==
    IF patch.op = "remove"
    THEN Put(rec, PathField(patch.path),
             IF patch.path = "/restrictToFactSheetTypes" THEN <<>> ELSE None)
    ELSE Put(rec, PathField(patch.path),
             IF patch.path = "/restrictToFactSheetTypes"
             THEN JsonLoads(patch.value) ELSE patch.value)

RECURSIVE ApplyPatches(_, _)
ApplyPatches(rec, patches) ==
    IF patches = <<>> THEN rec
    ELSE ApplyPatches(ApplyPatch(rec, Head(patches)), Tail(patches))

\* createTagGroup(fields) -> id: the group the service stores
CreatedGroup(fields, id) ==
    [id |-> id, name |-> fields.name, mode |-> Get(fields, "mode", None),
     restrictToFactSheetTypes |-> Get(fields, "restrictToFactSheetTypes", <<>>),
     shortName |-> Get(fields, "shortName", None),
     description |-> Get(fields, "description", None)]

\* createTag(fields) -> id: the tag the service stores
CreatedTag(fields, id) ==
    [id |-> id, name |-> fields.name, tagGroupId |-> fields.tagGroupId,
     description |-> Get(fields, "description", None),
     color |-> Get(fields, "color", None), status |-> Get(fields, "status", None)]

\* whether the service can carry the mutation out: the id it names must exist
Accepts(op, variables) ==
    CASE op \in {"updateTagGroup", "deleteTagGroup"} -> GroupExists(variables.id)
      [] op \in {"updateTag", "deleteTag"} -> TagExists(variables.id)
      [] op = "createTag" ->
            variables.tagGroupId = None \/ GroupExists(variables.tagGroupId)
      [] OTHER -> TRUE

\* the service's tag groups after the mutation
GroupsAfter(op, variables) ==
    CASE op = "createTagGroup" ->
            remoteGroups \cup {CreatedGroup(variables, NewId)}
      [] op = "updateTagGroup" ->
            (remoteGroups \ {GroupById(variables.id)})
                \cup {ApplyPatches(GroupById(variables.id), variables.patches)}
      [] op = "deleteTagGroup" -> remoteGroups \ {GroupById(variables.id)}
      [] OTHER -> remoteGroups

\* the service's tags after the mutation
TagsAfter(op, variables) ==
    CASE op = "createTag" -> remoteTags \cup {CreatedTag(variables, NewId)}
      [] op = "updateTag" ->
            (remoteTags \ {TagById(variables.id)})
                \cup {ApplyPatches(TagById(variables.id), variables.patches)}
      [] op = "deleteTag" -> remoteTags \ {TagById(variables.id)}
      [] op = "deleteTagGroup" ->
            {IF t.tagGroupId = variables.id THEN Put(t, "tagGroupId", None) ELSE t :
                t \in remoteTags}
      [] OTHER -> remoteTags

----------------------------------------------------------------------------
(* _exec_graphql *)

\* the name of the group the loops of do_perform are at
GroupAt ==
    IF pc \in {"group", "tag", "tagdel"} THEN desired[i].name ELSE current[i].name

\* the entry of the call log: the operation, the record the method was given,
\* the variables sent, whether the call succeeded, the id it returned, and
\* the run and the group the call was made in
Call(op, arg, variables, ok) ==
    [op |-> op, arg |-> arg, variables |-> variables, ok |-> ok,
     id |-> IF ok /\ op \in {"createTagGroup", "createTag"} THEN NewId ELSE None,
     run |-> run, group |-> GroupAt]

\* what the HTTP response of a call can be: data (line 70), or one of the
\* three that raise: raise_for_status (line 59), errors (lines 61-65), no data
\* (lines 66-69)
Outcomes(ok) == IF ok THEN {"data"} ELSE {"bad status", "errors", "no data"}

\* _exec_graphql of a mutation: the call returns data, or raises (bad status,
\* errors, no data) and the exception ends the run
ExecGraphql(op, arg, variables, ok) ==
    /\ ok => Accepts(op, variables)
    /\ \E outcome \in Outcomes(ok) :
        calls' = Append(calls, Put(Call(op, arg, variables, ok), "outcome", outcome))
    /\ remoteGroups' = IF ok THEN GroupsAfter(op, variables) ELSE remoteGroups
    /\ remoteTags' = IF ok THEN TagsAfter(op, variables) ELSE remoteTags
    /\ nextId' = IF ok /\ op \in {"createTagGroup", "createTag"}
                 THEN nextId + 1 ELSE nextId

----------------------------------------------------------------------------
(* Bounds and the initial states *)

\* tags on the service at the start, and tags in the snapshot
MaxTags == 2

RealNames == {"Legacy", "Risk"}
TagNames == {"High", "Low"}

\* the field values of the service's records at the start
RemoteGroupFields ==
    [mode |-> "MULTIPLE", restrictToFactSheetTypes |-> <<"Application">>,
     shortName |-> "sn", description |-> "about"]
RemoteTagFields == [description |-> "about", color |-> "#ff0000", status |-> "ACTIVE"]

\* the snapshots: "same" carries the service's values, "cleared" other values
\* with falsy shortName and description, "sparse" leaves the optional keys
\* shortName and description out
Profiles == {"same", "cleared", "sparse"}

DesiredGroupFields(profile) ==
    CASE profile = "same" -> RemoteGroupFields
      [] profile = "cleared" ->
            [mode |-> "SINGLE", restrictToFactSheetTypes |-> <<>>,
             shortName |-> None, description |-> ""]
      [] profile = "sparse" -> [mode |-> "SINGLE", restrictToFactSheetTypes |-> <<>>]

DesiredTagFields(profile) ==
    CASE profile = "same" -> RemoteTagFields
      [] profile = "cleared" ->
            [description |-> "", color |-> "#00ff00", status |-> "ARCHIVED"]
      [] profile = "sparse" -> [color |-> "#00ff00", status |-> "ARCHIVED"]

\* the groups on the service at the start: the two names are alike, so a
\* single group is "Legacy"
RemoteGroupSets == {G \in SUBSET RealNames : "Risk" \in G => "Legacy" \in G}

\* the tags of T (pairs <<owner, name>>) that owner owns, as a dict by name
TagsOf(T, owner, fields) ==
    [n \in {n \in TagNames : <<owner, n>> \in T} |-> Put(fields, "name", n)]

\* a snapshot as a backup writes it: groups and tags sorted by name, no ids
Snapshot(G, T, profile) ==
    SortedValues(
        [g \in G |->
            Put(IF g = OTHER_TAGS.name THEN [name |-> g]
                ELSE Put(DesiredGroupFields(profile), "name", g),
                "tags", SortedValues(TagsOf(T, g, DesiredTagFields(profile))))])

InitialGroups(G) == {Put(Put(RemoteGroupFields, "name", g), "id", "g-" \o g) : g \in G}

InitialTags(T) ==
    {Put(Put(Put(RemoteTagFields, "name", t[2]), "id", "t-" \o t[1] \o "-" \o t[2]),
         "tagGroupId", IF t[1] = None THEN None ELSE "g-" \o t[1]) : t \in T}

Idle ==
    /\ pc = "idle"
    /\ run = 0
    /\ nextId = 1
    /\ current = <<>>
    /\ desired = <<>>
    /\ curTags = <<>>
    /\ i = 1
    /\ j = 1
    /\ calls = <<>>
    /\ atStart = [groups |-> {}, tags |-> {}, disk |-> <<>>]

Init ==
    /\ Idle
    /\ \E G \in RemoteGroupSets :
        \E T \in SUBSET ((G \cup {None}) \X TagNames) :
            /\ Cardinality(T) <= MaxTags
            /\ remoteGroups = InitialGroups(G)
            /\ remoteTags = InitialTags(T)
    /\ \E G \in SUBSET (RealNames \cup {OTHER_TAGS.name}) :
        \E T \in SUBSET (G \X TagNames) :
            \E profile \in Profiles :
                /\ Cardinality(T) <= MaxTags
                /\ disk = Snapshot(G, T, profile)
    /\ response = <<>>
    /\ fetched = <<>>
    /\ refetched = <<>>

----------------------------------------------------------------------------
(* TagGroupsRestoreAction.do_perform *)

desiredTags == Get(desired[i], "tags", <<>>)

\* mutant: the id of the current record is not taken over
adopt_no_id(desired_record, current_record) == Put(desired_record, "id", None)

\* lines 106 and 152: the desired record takes the id of the current record
AdoptId(desired_record, current_record) ==
    Put(desired_record, "id", current_record.id)

\* mutant: the id the createTagGroup call returned is dropped
create_tag_group_no_id(tag_group, response_id) == Put(tag_group, "id", None)

\* line 127: the desired group takes the id the createTagGroup call returned
create_tag_group(tag_group, response_id) == Put(tag_group, "id", response_id)

\* line 164: the desired tag takes the id the createTag call returned
create_tag(tag, response_id) == Put(tag, "id", response_id)

\* desired with the j-th tag of the i-th group replaced
WithTag(tag) ==
    [desired EXCEPT ![i] = Put(@, "tags", [desiredTags EXCEPT ![j] = tag])]

\* mutant: the exception of a failed call is swallowed
proceed_anyway(ok, next) == pc' = next

\* the call made, the run goes on at the place next, or ends with the exception
Proceed(ok, next) == pc' = IF ok THEN next ELSE "error"

Aborted == pc' = "error"

\* lines 100-101: fetch the current tag groups with their ids, read the snapshot
BeginRestore ==
    /\ run' = run + 1
    /\ \E ok \in BOOLEAN :
        /\ \E outcome \in Outcomes(ok) :
            calls' = Append(calls, [op |-> "listTags", arg |-> NullRef,
                                    variables |-> NullRef, ok |-> ok,
                                    id |-> None, run |-> run + 1,
                                    group |-> None, outcome |-> outcome,
                                    action |-> "restore"])
        /\ Proceed(ok, "group")
        /\ IF ok
           THEN /\ \E edges \in ListTagsEdges :
                        current' = FetchTagGroups(edges, FALSE)
                /\ desired' = disk
           ELSE UNCHANGED <<current, desired>>
    /\ i' = 1
    /\ j' = 1
    /\ curTags' = <<>>
    /\ atStart' = [groups |-> remoteGroups, tags |-> remoteTags, disk |-> disk]
    /\ UNCHANGED <<remoteGroups, remoteTags, nextId, disk, response, fetched, refetched>>

\* the restore action is invoked
StartRestore ==
    /\ pc = "idle"
    /\ BeginRestore

\* lines 104-109: the desired group has a current group and is real
UpdateGroup ==
    /\ pc = "group"
    /\ i <= Len(desired)
    /\ Found(desired[i], current)
    /\ is_real_tag_group(desired[i])
    /\ LET current_tag_group == find_by_name(desired[i], current)
           desired_tag_group == AdoptId(desired[i], current_tag_group)
       IN  /\ desired' = [desired EXCEPT ![i] = desired_tag_group]
           /\ IF GroupPatchKeys \subseteq DOMAIN desired_tag_group
              THEN \E ok \in BOOLEAN :
                    /\ ExecGraphql("updateTagGroup", desired_tag_group,
                                   [id |-> desired_tag_group.id,
                                    patches |-> tag_group_patches(desired_tag_group)],
                                   ok)
                    /\ Proceed(ok, "tag")
                    /\ curTags' = IF ok THEN Get(current_tag_group, "tags", <<>>)
                                  ELSE curTags
              ELSE /\ Aborted
                   /\ UNCHANGED <<calls, remoteGroups, remoteTags, nextId, curTags>>
    /\ j' = 1
    /\ UNCHANGED <<disk, run, current, i, atStart, response, fetched, refetched>>

\* lines 104-109: the desired group has a current group and is the synthetic one
AdoptSynthetic ==
    /\ pc = "group"
    /\ i <= Len(desired)
    /\ Found(desired[i], current)
    /\ ~is_real_tag_group(desired[i])
    /\ LET current_tag_group == find_by_name(desired[i], current)
       IN  /\ desired' = [desired EXCEPT ![i] = AdoptId(@, current_tag_group)]
           /\ curTags' = Get(current_tag_group, "tags", <<>>)
    /\ pc' = "tag"
    /\ j' = 1
    /\ UNCHANGED <<remoteGroups, remoteTags, nextId, disk, run, current, i, calls,
                   atStart, response, fetched, refetched>>

\* lines 110-112, 115, 125-127: the desired group is new and real
CreateGroup ==
    /\ pc = "group"
    /\ i <= Len(desired)
    /\ ~Found(desired[i], current)
    /\ is_real_tag_group(desired[i])
    /\ \E ok \in BOOLEAN :
        /\ ExecGraphql("createTagGroup", desired[i], desired[i], ok)
        /\ Proceed(ok, "tag")
        /\ desired' = IF ok THEN [desired EXCEPT ![i] = create_tag_group(@, NewId)]
                      ELSE desired
    /\ curTags' = <<>>
    /\ j' = 1
    /\ UNCHANGED <<disk, run, current, i, atStart, response, fetched, refetched>>

\* lines 110-115: the desired group is the synthetic one and has no current group
SyntheticWithoutCurrent ==
    /\ pc = "group"
    /\ i <= Len(desired)
    /\ ~Found(desired[i], current)
    /\ ~is_real_tag_group(desired[i])
    /\ desired' = [desired EXCEPT ![i] = Put(@, "id", None)]
    /\ curTags' = <<>>
    /\ pc' = "tag"
    /\ j' = 1
    /\ UNCHANGED <<remoteGroups, remoteTags, nextId, disk, run, current, i, calls,
                   atStart, response, fetched, refetched>>

\* lines 149-153, 166-176: the desired tag has a current tag
UpdateTag ==
    /\ pc = "tag"
    /\ j <= Len(desiredTags)
    /\ Found(desiredTags[j], curTags)
    /\ LET current_tag == find_by_name(desiredTags[j], curTags)
           desired_tag == AdoptId(desiredTags[j], current_tag)
       IN  /\ desired' = WithTag(desired_tag)
           /\ IF TagPatchKeys \subseteq DOMAIN desired_tag
              THEN \E ok \in BOOLEAN :
                    /\ ExecGraphql("updateTag", desired_tag,
                                   [id |-> desired_tag.id,
                                    patches |-> tag_patches(desired_tag)], ok)
                    /\ Proceed(ok, "tag")
                    /\ j' = IF ok THEN j + 1 ELSE j
              ELSE /\ Aborted
                   /\ UNCHANGED <<calls, remoteGroups, remoteTags, nextId, j>>
    /\ UNCHANGED <<disk, run, current, curTags, i, atStart, response, fetched, refetched>>

\* lines 154-156, 162-164: the desired tag is new
CreateTag ==
    /\ pc = "tag"
    /\ j <= Len(desiredTags)
    /\ ~Found(desiredTags[j], curTags)
    /\ LET desired_tag == Put(desiredTags[j], "tagGroupId", desired[i].id)
       IN  \E ok \in BOOLEAN :
            /\ ExecGraphql("createTag", desired_tag, desired_tag, ok)
            /\ Proceed(ok, "tag")
            /\ desired' = WithTag(IF ok THEN create_tag(desired_tag, NewId)
                                  ELSE desired_tag)
            /\ j' = IF ok THEN j + 1 ELSE j
    /\ UNCHANGED <<disk, run, current, curTags, i, atStart, response, fetched, refetched>>

\* line 149: the loop over the desired tags ends
DesiredTagsEnd ==
    /\ pc = "tag"
    /\ j > Len(desiredTags)
    /\ pc' = "tagdel"
    /\ j' = 1
    /\ UNCHANGED <<remoteGroups, remoteTags, nextId, disk, run, current, desired,
                   curTags, i, calls, atStart, response, fetched, refetched>>

\* lines 158-160, 178-179: the current tag has no desired tag
DeleteTag ==
    /\ pc = "tagdel"
    /\ j <= Len(curTags)
    /\ ~Found(curTags[j], desiredTags)
    /\ \E ok \in BOOLEAN :
        /\ ExecGraphql("deleteTag", curTags[j], [id |-> curTags[j].id], ok)
        /\ Proceed(ok, "tagdel")
        /\ j' = IF ok THEN j + 1 ELSE j
    /\ UNCHANGED <<disk, run, current, desired, curTags, i, atStart, response, fetched, refetched>>

\* mutant: the current tag that has a desired tag is deleted as well
delete_matched_tag ==
    /\ pc = "tagdel"
    /\ j <= Len(curTags)
    /\ Found(curTags[j], desiredTags)
    /\ \E ok \in BOOLEAN :
        /\ ExecGraphql("deleteTag", curTags[j], [id |-> curTags[j].id], ok)
        /\ Proceed(ok, "tagdel")
        /\ j' = IF ok THEN j + 1 ELSE j
    /\ UNCHANGED <<disk, run, current, desired, curTags, i, atStart, response, fetched,
                   refetched>>

\* lines 158-159: the current tag has a desired tag
KeepTag ==
    /\ pc = "tagdel"
    /\ j <= Len(curTags)
    /\ Found(curTags[j], desiredTags)
    /\ j' = j + 1
    /\ UNCHANGED <<remoteGroups, remoteTags, nextId, disk, pc, run, current, desired,
                   curTags, i, calls, atStart, response, fetched, refetched>>

\* line 158: the loop over the current tags ends, and with it _restore_tags
CurrentTagsEnd ==
    /\ pc = "tagdel"
    /\ j > Len(curTags)
    /\ pc' = "group"
    /\ i' = i + 1
    /\ j' = 1
    /\ UNCHANGED <<remoteGroups, remoteTags, nextId, disk, run, current, desired,
                   curTags, calls, atStart, response, fetched, refetched>>

\* line 103: the loop over the desired groups ends
DesiredGroupsEnd ==
    /\ pc = "group"
    /\ i > Len(desired)
    /\ pc' = "obsolete"
    /\ i' = 1
    /\ j' = 1
    /\ UNCHANGED <<remoteGroups, remoteTags, nextId, disk, run, current, desired,
                   curTags, calls, atStart, response, fetched, refetched>>

\* mutant: the tags of the obsolete group are taken last to first
obsoleteTagsReversed ==
    LET tags == Get(current[i], "tags", <<>>)
    IN  [n \in 1..Len(tags) |-> tags[Len(tags) + 1 - n]]

obsoleteTags == Get(current[i], "tags", <<>>)

\* mutant: the second loop updates the current group that has a desired group
update_in_second_loop ==
    /\ pc = "obsolete"
    /\ i <= Len(current)
    /\ Found(current[i], desired)
    /\ \E ok \in BOOLEAN :
        /\ ExecGraphql("updateTagGroup", current[i],
                       [id |-> current[i].id, patches |-> <<>>], ok)
        /\ Proceed(ok, "obsolete")
        /\ i' = IF ok THEN i + 1 ELSE i
    /\ UNCHANGED <<disk, run, current, desired, curTags, j, atStart, response, fetched,
                   refetched>>

\* lines 118-119: the current group has a desired group
KeepGroup ==
    /\ pc = "obsolete"
    /\ i <= Len(current)
    /\ Found(current[i], desired)
    /\ i' = i + 1
    /\ UNCHANGED <<remoteGroups, remoteTags, nextId, disk, pc, run, current, desired,
                   curTags, j, calls, atStart, response, fetched, refetched>>

\* lines 118-120: the current group has no desired group
ObsoleteGroup ==
    /\ pc = "obsolete"
    /\ i <= Len(current)
    /\ ~Found(current[i], desired)
    /\ pc' = "obsoletetags"
    /\ j' = 1
    /\ UNCHANGED <<remoteGroups, remoteTags, nextId, disk, run, current, desired,
                   curTags, i, calls, atStart, response, fetched, refetched>>

\* lines 120-121: a tag of the obsolete group
DeleteObsoleteTag ==
    /\ pc = "obsoletetags"
    /\ j <= Len(obsoleteTags)
    /\ \E ok \in BOOLEAN :
        /\ ExecGraphql("deleteTag", obsoleteTags[j], [id |-> obsoleteTags[j].id], ok)
        /\ Proceed(ok, "obsoletetags")
        /\ j' = IF ok THEN j + 1 ELSE j
    /\ UNCHANGED <<disk, run, current, desired, curTags, i, atStart, response, fetched, refetched>>

\* lines 122-123, 145-146: the obsolete group itself, when it is real
DeleteGroup ==
    /\ pc = "obsoletetags"
    /\ j > Len(obsoleteTags)
    /\ is_real_tag_group(current[i])
    /\ \E ok \in BOOLEAN :
        /\ ExecGraphql("deleteTagGroup", current[i], [id |-> current[i].id], ok)
        /\ Proceed(ok, "obsolete")
        /\ i' = IF ok THEN i + 1 ELSE i
    /\ UNCHANGED <<disk, run, current, desired, curTags, j, atStart, response, fetched, refetched>>

\* line 122: the obsolete group is the synthetic one
DiscardSynthetic ==
    /\ pc = "obsoletetags"
    /\ j > Len(obsoleteTags)
    /\ ~is_real_tag_group(current[i])
    /\ pc' = "obsolete"
    /\ i' = i + 1
    /\ UNCHANGED <<remoteGroups, remoteTags, nextId, disk, run, current, desired,
                   curTags, j, calls, atStart, response, fetched, refetched>>

\* line 118: the loop over the current groups ends, and with it do_perform
RestoreEnd ==
    /\ pc = "obsolete"
    /\ i > Len(current)
    /\ pc' = "done"
    /\ UNCHANGED <<remoteGroups, remoteTags, nextId, disk, run, current, desired,
                   curTags, i, j, calls, atStart, response, fetched, refetched>>

Next ==
    \/ StartRestore
    \/ UpdateGroup
    \/ AdoptSynthetic
    \/ CreateGroup
    \/ SyntheticWithoutCurrent
    \/ UpdateTag
    \/ CreateTag
    \/ DesiredTagsEnd
    \/ DeleteTag
    \/ KeepTag
    \/ CurrentTagsEnd
    \/ DesiredGroupsEnd
    \/ KeepGroup
    \/ ObsoleteGroup
    \/ DeleteObsoleteTag
    \/ DeleteGroup
    \/ DiscardSynthetic
    \/ RestoreEnd

Spec == Init /\ [][Next]_vars

----------------------------------------------------------------------------
(* Restore on a service that has a tag group named as the synthetic one *)

\* the groups on the service at the start: a real group "__OTHER_TAGS__",
\* with or without the group "Legacy"
SentinelGroupSets == {{OTHER_TAGS.name}, {OTHER_TAGS.name, "Legacy"}}

SentinelInit ==
    /\ Idle
    /\ \E G \in SentinelGroupSets :
        \E T \in SUBSET ((G \cup {None}) \X TagNames) :
            /\ Cardinality(T) <= MaxTags
            /\ remoteGroups = InitialGroups(G)
            /\ remoteTags = InitialTags(T)
    /\ \E G \in SUBSET {"Legacy", OTHER_TAGS.name} :
        \E T \in SUBSET (G \X TagNames) :
            \E profile \in Profiles :
                /\ Cardinality(T) <= MaxTags
                /\ disk = Snapshot(G, T, profile)
    /\ response = <<>>
    /\ fetched = <<>>
    /\ refetched = <<>>

SentinelSpec == SentinelInit /\ [][Next]_vars

----------------------------------------------------------------------------
(* Restore with names that occur twice or differ in case only *)

\* tags on the service, and tags of a group of the snapshot
MaxMatchTags == 2

\* groups of the snapshot
MaxMatchGroups == 2

\* tag names that differ in case only
MatchNames == {"High", "high"}

\* the sequences over S of length n at most
SeqsUpTo(S, n) == UNION {[1..k -> S] : k \in 0..n}

\* the tags of the service: the k-th has the id "tk", the name and the owner
\* (a group name or None) of owned[k]
MatchTags(owned) ==
    {Put(Put(Put(RemoteTagFields, "name", owned[k][1]), "id", "t" \o ToString(k)),
         "tagGroupId", IF owned[k][2] = None THEN None ELSE "g-" \o owned[k][2]) :
        k \in DOMAIN owned}

\* a group of the snapshot with the name and the tags of the names
MatchGroup(name, tag_names) ==
    Put(IF name = OTHER_TAGS.name THEN [name |-> name]
        ELSE Put(DesiredGroupFields("same"), "name", name),
        "tags", [k \in DOMAIN tag_names |->
                    Put(DesiredTagFields("same"), "name", tag_names[k])])

\* the service has the group "Legacy" and tags whose names may be equal; the
\* snapshot is any list of groups, as an edited file may hold
MatchInit ==
    /\ Idle
    /\ remoteGroups = InitialGroups({"Legacy"})
    /\ \E owned \in SeqsUpTo(MatchNames \X {"Legacy", None}, MaxMatchTags) :
        remoteTags = MatchTags(owned)
    /\ \E groups \in SeqsUpTo({"Legacy", OTHER_TAGS.name}
                                \X SeqsUpTo(MatchNames, MaxMatchTags), MaxMatchGroups) :
        disk = [k \in DOMAIN groups |-> MatchGroup(groups[k][1], groups[k][2])]
    /\ response = <<>>
    /\ fetched = <<>>
    /\ refetched = <<>>

MatchSpec == MatchInit /\ [][Next]_vars

----------------------------------------------------------------------------
(* TagGroupsBackupAction.do_perform *)

\* mutant: the snapshot is written also when the fetch gave nothing
write_regardless(fetch_returned, tag_groups) == disk' = tag_groups

\* line 85: file.write_to_disk(self.name, tag_groups), reached when the
\* fetch of line 84 returned
write_to_disk(fetch_returned, tag_groups) ==
    disk' = IF fetch_returned THEN tag_groups ELSE disk

\* lines 80-85: fetch the tag groups without their ids, write the snapshot
Backup ==
    /\ pc = "idle"
    /\ run' = run + 1
    /\ \E ok \in BOOLEAN :
        /\ \E outcome \in Outcomes(ok) :
            calls' = Append(calls, [op |-> "listTags", arg |-> NullRef,
                                    variables |-> NullRef, ok |-> ok,
                                    id |-> None, run |-> run + 1,
                                    group |-> None, outcome |-> outcome,
                                    action |-> "backup"])
        /\ Proceed(ok, "backed up")
        /\ \E edges \in IF ok THEN ListTagsEdges ELSE {<<>>} :
            write_to_disk(ok, FetchTagGroups(edges, TRUE))
    /\ atStart' = [groups |-> remoteGroups, tags |-> remoteTags, disk |-> disk]
    /\ UNCHANGED <<remoteGroups, remoteTags, nextId, current, desired, curTags, i, j,
                   response, fetched, refetched>>

\* the backup action or the restore action is invoked
BackupNext ==
    \/ Backup
    \/ Next

BackupSpec == Init /\ [][BackupNext]_vars

----------------------------------------------------------------------------
(* Restore invoked again after a run that completed *)

\* restore runs made one after the other
MaxRuns == 2

RestoreAgain ==
    /\ pc = "done"
    /\ run < MaxRuns
    /\ BeginRestore

NextAgain ==
    \/ Next
    \/ RestoreAgain

RepeatSpec == Init /\ [][NextAgain]_vars

----------------------------------------------------------------------------
(* Properties of a restore run *)

\* the run completed: every call succeeded and do_perform returned
Completed == pc = "done"

Range(seq) == {seq[n] : n \in 1..Len(seq)}

DesiredNames == {d.name : d \in Range(disk)}

\* the names of the tags the snapshot lists under the group named g
DesiredTagNames(g) ==
    UNION {{t.name : t \in Range(Get(d, "tags", <<>>))} : d \in {d \in Range(disk) : d.name = g}}

\* the name under which a fetch lists the group with this id (None: no group)
NameOfGroup(groups, id) ==
    IF id = None THEN OTHER_TAGS.name ELSE (CHOOSE g \in groups : g.id = id).name

\* two optional values agree: both are falsy (cleared), or they are equal
SameOptional(a, b) == IF Truthy(a) THEN a = b ELSE ~Truthy(b)

\* C1 (as claimed): after a restore run that completed, every tag group and
\* every tag that was on the service before the run and is not in the snapshot
\* by name is gone from the service, also a tag group that owned no tags.
C1_FullAuthority ==
    Completed =>
        /\ \A g \in atStart.groups : g.name \notin DesiredNames => ~GroupExists(g.id)
        /\ \A t \in atStart.tags :
                t.name \notin DesiredTagNames(NameOfGroup(atStart.groups, t.tagGroupId))
                    => ~TagExists(t.id)

\* C1, what the code does achieve: the same for the tags and for the tag
\* groups that owned a tag when the run began (the ones a fetch lists).
C1_AuthorityOverListed ==
    Completed =>
        /\ \A g \in atStart.groups :
                /\ g.name \notin DesiredNames
                /\ \E t \in atStart.tags : t.tagGroupId = g.id
                => ~GroupExists(g.id)
        /\ \A t \in atStart.tags :
                t.name \notin DesiredTagNames(NameOfGroup(atStart.groups, t.tagGroupId))
                    => ~TagExists(t.id)

\* the remote group carries the desired group's configuration
CarriesGroup(g, d) ==
    /\ g.mode = Get(d, "mode", None)
    /\ g.restrictToFactSheetTypes = Get(d, "restrictToFactSheetTypes", <<>>)
    /\ SameOptional(g.shortName, Get(d, "shortName", None))
    /\ SameOptional(g.description, Get(d, "description", None))

\* the remote tag carries the desired tag's configuration
CarriesTag(t, d) ==
    /\ SameOptional(t.description, Get(d, "description", None))
    /\ t.color = Get(d, "color", None)
    /\ t.status = Get(d, "status", None)

\* exactly one remote tag named as d sits under the group id and carries d
OneTag(groupId, d) ==
    LET same == {t \in remoteTags : t.name = d.name /\ t.tagGroupId = groupId}
    IN  Cardinality(same) = 1 /\ \A t \in same : CarriesTag(t, d)

\* the desired group d and its tags are on the service exactly once
Converged(d) ==
    LET same == {g \in remoteGroups : g.name = d.name}
    IN  IF is_real_tag_group(d)
        THEN /\ Cardinality(same) = 1
             /\ \A g \in same :
                    /\ CarriesGroup(g, d)
                    /\ \A t \in Range(Get(d, "tags", <<>>)) : OneTag(g.id, t)
        ELSE \A t \in Range(Get(d, "tags", <<>>)) : OneTag(None, t)

\* C2 (as claimed): after a restore run that completed, every real desired
\* group is on the service exactly once with the desired configuration, and
\* every desired tag exactly once under its group (under no group for the
\* synthetic group) with the desired configuration.
C2_Convergence == Completed => \A d \in Range(disk) : Converged(d)

\* C2, what the code does achieve: convergence when every tag group on the
\* service owned a tag when the run began.
C2_ConvergenceOfListed ==
    (Completed /\ \A g \in atStart.groups : \E t \in atStart.tags : t.tagGroupId = g.id)
        => \A d \in Range(disk) : Converged(d)

----------------------------------------------------------------------------
(* The order of the calls of a run *)

IsPrefix(a, b) == Len(a) <= Len(b) /\ \A n \in 1..Len(a) : a[n] = b[n]

GroupOps == {"createTagGroup", "updateTagGroup", "deleteTagGroup"}

\* the delete calls of this run that name a tag of the current group c or
\* were given c itself: operation and id, in the order issued
DeletesFor(c) ==
    LET ids == {t.id : t \in Range(Get(c, "tags", <<>>))}
        sel == SelectSeq(calls, LAMBDA x :
                    /\ x.run = run
                    /\ \/ x.op = "deleteTag" /\ x.variables.id \in ids
                       \/ x.op = "deleteTagGroup" /\ x.arg.name = c.name)
    IN  [n \in 1..Len(sel) |-> <<sel[n].op, sel[n].variables.id>>]

\* the delete calls the delete path is to issue for c
DeletePath(c) ==
    LET tags == Get(c, "tags", <<>>)
    IN  [n \in 1..Len(tags) |-> <<"deleteTag", tags[n].id>>]
            \o (IF c.name # "__OTHER_TAGS__" THEN << <<"deleteTagGroup", c.id>> >>
                ELSE <<>>)

\* C3: for every current group that matches no desired group by name, the
\* delete calls issued for it are, at any moment, a prefix of: delete-tag for
\* each of its tags in the order of its tag list, then delete-group if and
\* only if the group is real; when the run has completed they are all issued.
C3_DeletePathOrder ==
    \A c \in Range(current) :
        c.name \notin DesiredNames =>
            /\ IsPrefix(DeletesFor(c), DeletePath(c))
            /\ Completed => DeletesFor(c) = DeletePath(c)

\* C3 witness: a completed run that removed a real current group with two
\* tags (the "Legacy" example of the delete path).
C3_Witness ==
    /\ Completed
    /\ \E c \in Range(current) :
        /\ c.name \notin DesiredNames
        /\ c.name # "__OTHER_TAGS__"
        /\ Len(c.tags) = 2
        /\ Len(DeletesFor(c)) = 3

\* the calls of this run made while the loops were at the group named g
CallsIn(g) == SelectSeq(calls, LAMBDA x : x.run = run /\ x.group = g)

\* the desired group d is real and has no current group of its name
IsNew(d) == d.name # "__OTHER_TAGS__" /\ \A c \in Range(current) : c.name # d.name

\* C4: for every real desired group with no current group of the same name,
\* the calls made for it are one create-group call followed by one create-tag
\* call per tag, each carrying as tagGroupId the id the create-group call
\* returned; no other create-group call names the group, and no update or
\* delete call names a tag created for it.
C4_CreatePathOrder ==
    \A d \in Range(desired) :
        IsNew(d) =>
            LET tags == Get(d, "tags", <<>>)
                sel == CallsIn(d.name)
                made == {sel[k].id : k \in 2..Len(sel)}
            IN  /\ Len(sel) <= 1 + Len(tags)
                /\ Completed => Len(sel) = 1 + Len(tags)
                /\ \A k \in 1..Len(sel) :
                    IF k = 1
                    THEN sel[1].op = "createTagGroup" /\ sel[1].arg.name = d.name
                    ELSE /\ sel[k].op = "createTag"
                         /\ sel[k].variables.name = tags[k - 1].name
                         /\ sel[1].ok
                         /\ sel[1].id # None
                         /\ sel[k].variables.tagGroupId = sel[1].id
                /\ \A n \in 1..Len(calls) :
                    /\ (calls[n].op = "createTagGroup" /\ calls[n].arg.name = d.name)
                            => calls[n].group = d.name
                    /\ calls[n].op \in {"updateTag", "deleteTag"}
                            => calls[n].variables.id \notin (made \ {None})

\* C4 witness: a completed run that created a real group and its two tags.
C4_Witness ==
    /\ Completed
    /\ \E d \in Range(desired) :
        /\ IsNew(d)
        /\ Len(Get(d, "tags", <<>>)) = 2
        /\ Len(CallsIn(d.name)) = 3

\* C5: no create-group, update-group or delete-group call is ever issued for
\* a group named "__OTHER_TAGS__".
C5_SentinelNeverTouched ==
    \A n \in 1..Len(calls) :
        calls[n].op \in GroupOps => calls[n].arg.name # "__OTHER_TAGS__"

\* C5 witness: a completed run with the synthetic group both in the desired
\* and in the current state, whose tags were reconciled.
C5_Witness ==
    /\ Completed
    /\ "__OTHER_TAGS__" \in DesiredNames
    /\ \E c \in Range(current) : c.name = "__OTHER_TAGS__"
    /\ Len(CallsIn("__OTHER_TAGS__")) > 0

\* C5, the other two cases: the synthetic group in the desired state only,
\* and in the current state only.
C5_WitnessDesiredOnly ==
    /\ Completed
    /\ "__OTHER_TAGS__" \in DesiredNames
    /\ \A c \in Range(current) : c.name # "__OTHER_TAGS__"
    /\ Len(CallsIn("__OTHER_TAGS__")) > 0

C5_WitnessCurrentOnly ==
    /\ Completed
    /\ "__OTHER_TAGS__" \notin DesiredNames
    /\ \E c \in Range(current) : c.name = "__OTHER_TAGS__"
    /\ Len(CallsIn("__OTHER_TAGS__")) > 0

----------------------------------------------------------------------------
(* Matched records *)

\* the fetched groups without the ids of the groups and of the tags
EraseIds(groups) ==
    [n \in DOMAIN groups |->
        LET tags == Get(groups[n], "tags", <<>>)
        IN  Put(Del(groups[n], "id"), "tags", [k \in DOMAIN tags |-> Del(tags[k], "id")])]

\* the fetch of this run returned
Fetched ==
    \E n \in 1..Len(calls) :
        calls[n].op = "listTags" /\ calls[n].run = run /\ calls[n].ok

\* desired equals current by group names, tag names and field values
DesiredEqualsCurrent == Fetched /\ EraseIds(current) = disk

\* the calls of this run that satisfy Test
CallsOfRun(Test(_)) == SelectSeq(calls, LAMBDA x : x.run = run /\ Test(x))

\* C6: when desired equals current, reconcile issues no create-group, no
\* delete-group, no create-tag and no delete-tag call.
C6_EqualStateNoCreateNoDelete ==
    DesiredEqualsCurrent =>
        CallsOfRun(LAMBDA x : x.op \in {"createTagGroup", "deleteTagGroup",
                                       "createTag", "deleteTag"}) = <<>>

\* C6 witness: a completed run over two groups with a tag, desired equal to
\* current.
C6_Witness ==
    /\ Completed
    /\ DesiredEqualsCurrent
    /\ Len(disk) = 2
    /\ \A d \in Range(disk) : Len(d.tags) > 0
    /\ Len(calls) > 1

\* the update-group calls of this run for the group named g
GroupUpdates(g) == CallsOfRun(LAMBDA x : x.op = "updateTagGroup" /\ x.arg.name = g)

\* the update-tag calls of this run for the tag named t of the group named g
TagUpdates(g, t) ==
    CallsOfRun(LAMBDA x : x.op = "updateTag" /\ x.group = g /\ x.arg.name = t)

\* the pairs of a desired and a current group with the same name
MatchedGroups ==
    {p \in Range(disk) \X Range(current) : p[1].name = p[2].name}

\* the pairs of a desired and a current tag with the same name, per matched group
MatchedTags(p) ==
    {q \in Range(Get(p[1], "tags", <<>>)) \X Range(Get(p[2], "tags", <<>>)) :
        q[1].name = q[2].name}

\* C7: every update call carries the id of the current record of its name;
\* a matched pair gets at most one update call, and when the run has
\* completed exactly one: one update-group call per real desired group with
\* a current group of its name, one update-tag call per desired tag with a
\* current tag of its name inside the matched group, whatever the values.
C7_LiteralUpdateRule ==
    Fetched =>
        /\ \A p \in MatchedGroups :
            /\ Len(GroupUpdates(p[1].name)) <= 1
            /\ \A n \in 1..Len(GroupUpdates(p[1].name)) :
                    GroupUpdates(p[1].name)[n].variables.id = p[2].id
            /\ (Completed /\ p[1].name # "__OTHER_TAGS__")
                    => Len(GroupUpdates(p[1].name)) = 1
            /\ \A q \in MatchedTags(p) :
                /\ Len(TagUpdates(p[1].name, q[1].name)) <= 1
                /\ \A n \in 1..Len(TagUpdates(p[1].name, q[1].name)) :
                        TagUpdates(p[1].name, q[1].name)[n].variables.id = q[2].id
                /\ Completed => Len(TagUpdates(p[1].name, q[1].name)) = 1
        /\ Len(CallsOfRun(LAMBDA x : x.op = "updateTagGroup"))
                <= Cardinality({p \in MatchedGroups : p[1].name # "__OTHER_TAGS__"})
        /\ Len(CallsOfRun(LAMBDA x : x.op = "updateTag"))
                <= Cardinality(UNION {{<<p[1].name, q[1].name>> : q \in MatchedTags(p)} :
                                        p \in MatchedGroups})

\* C7 witness: a completed run in which desired equals current, so that no
\* field differs, and a group and a tag were updated all the same.
C7_Witness ==
    /\ Completed
    /\ DesiredEqualsCurrent
    /\ Len(CallsOfRun(LAMBDA x : x.op = "updateTagGroup")) > 0
    /\ Len(CallsOfRun(LAMBDA x : x.op = "updateTag")) > 0

----------------------------------------------------------------------------
(* The patches of an update *)

\* the patches clear the field when the desired value is falsy or missing
\* (and never replace it), and replace it with the desired value otherwise
ClearsOrReplaces(patches, d, field) ==
    LET value == Get(d, field, None)
        path == "/" \o field
    IN  IF value = None \/ value = ""
        THEN /\ \E n \in 1..Len(patches) : patches[n] = [op |-> "remove", path |-> path]
             /\ \A n \in 1..Len(patches) :
                    patches[n].path = path => patches[n].op # "replace"
        ELSE \E n \in 1..Len(patches) :
                patches[n] = [op |-> "replace", path |-> path, value |-> value]

\* the patches carry a replace op for the field
Replaces(patches, field) ==
    \E n \in 1..Len(patches) :
        patches[n].op = "replace" /\ patches[n].path = "/" \o field

\* an update-group call for the desired group d with the patches of the rule
GroupUpdateFor(d) ==
    \E n \in 1..Len(calls) :
        /\ calls[n].op = "updateTagGroup"
        /\ calls[n].run = run
        /\ calls[n].arg.name = d.name
        /\ ClearsOrReplaces(calls[n].variables.patches, d, "description")
        /\ ClearsOrReplaces(calls[n].variables.patches, d, "shortName")
        /\ Replaces(calls[n].variables.patches, "mode")
        /\ Replaces(calls[n].variables.patches, "restrictToFactSheetTypes")

\* an update-tag call for the desired tag t of the group named g with the
\* patches of the rule
TagUpdateFor(g, t) ==
    \E n \in 1..Len(calls) :
        /\ calls[n].op = "updateTag"
        /\ calls[n].run = run
        /\ calls[n].group = g
        /\ calls[n].arg.name = t.name
        /\ ClearsOrReplaces(calls[n].variables.patches, t, "description")
        /\ Replaces(calls[n].variables.patches, "color")
        /\ Replaces(calls[n].variables.patches, "status")

\* the update of the desired group d was reached: d is real, has a current
\* group of its name and has taken its id (line 106)
GroupUpdateReached(d) ==
    /\ d.name # "__OTHER_TAGS__"
    /\ \E c \in Range(current) : c.name = d.name
    /\ "id" \in DOMAIN d

\* the update of the desired tag t was reached: t has taken the id of a
\* current tag (line 152); a created tag carries a tagGroupId (line 155)
TagUpdateReached(t) == "id" \in DOMAIN t /\ "tagGroupId" \notin DOMAIN t

\* C9 (as claimed): an update of a group whose desired description or
\* shortName is an empty string or absent produces a remove op for the field
\* and never a replace, a non-empty value a replace with the value; a tag
\* update does the same for description; group updates carry replace ops for
\* mode and restrictToFactSheetTypes, tag updates for color and status.
C9_PatchClearing ==
    \A d \in Range(desired) :
        /\ GroupUpdateReached(d) => GroupUpdateFor(d)
        /\ \A t \in Range(Get(d, "tags", <<>>)) :
                TagUpdateReached(t) => TagUpdateFor(d.name, t)

\* C9, what the code does achieve: the same when the desired record has the
\* keys (with a value, an empty string or None); without them the update
\* raises KeyError and makes no call.
C9_PatchClearingOfPresentKeys ==
    \A d \in Range(desired) :
        /\ (GroupUpdateReached(d) /\ {"shortName", "description"} \subseteq DOMAIN d)
                => GroupUpdateFor(d)
        /\ \A t \in Range(Get(d, "tags", <<>>)) :
                (TagUpdateReached(t) /\ "description" \in DOMAIN t)
                    => TagUpdateFor(d.name, t)

----------------------------------------------------------------------------
(* Restore run twice *)

\* the create and delete calls of this run
CreatesAndDeletes ==
    CallsOfRun(LAMBDA x : x.op \in {"createTagGroup", "deleteTagGroup",
                                   "createTag", "deleteTag"})

\* a record of the service with a cleared optional field read as None,
\* whether the service keeps it as None or as an empty string
Cleared(rec) ==
    [f \in DOMAIN rec |->
        IF f \in {"shortName", "description"} /\ rec[f] = "" THEN None ELSE rec[f]]

\* the service holds the tag groups and tags it held when the run began
ServiceAsAtStart ==
    /\ {Cleared(g) : g \in remoteGroups} = {Cleared(g) : g \in atStart.groups}
    /\ {Cleared(t) : t \in remoteTags} = {Cleared(t) : t \in atStart.tags}

\* C8 (as claimed): a second restore run with the same snapshot, on a freshly
\* fetched current state, issues no create and no delete call and leaves the
\* service as the first run left it, also for desired groups without tags.
C8_IdempotentUnderRefetch ==
    run >= 2 =>
        /\ CreatesAndDeletes = <<>>
        /\ Completed => ServiceAsAtStart

\* C8, what the code does achieve: the same when every real group of the
\* snapshot has at least one tag.
C8_IdempotentWithTags ==
    (run >= 2 /\ \A d \in Range(disk) :
                    d.name # "__OTHER_TAGS__" => Len(Get(d, "tags", <<>>)) > 0)
        => /\ CreatesAndDeletes = <<>>
           /\ Completed => ServiceAsAtStart

----------------------------------------------------------------------------
(* _fetch_tag_groups on any response *)

\* edges of a listTags response
MaxEdges == 3

\* the tag groups a response may name: two groups of the same name, and a
\* real group that bears the name of the synthetic one
ResponseGroups ==
    {Put(Put(RemoteGroupFields, "name", g[1]), "id", g[2]) :
        g \in {<<"Legacy", "g1">>, <<"Risk", "g2">>, <<"Legacy", "g3">>,
               <<"__OTHER_TAGS__", "g4">>}}

\* the n-th edge of a response: a tag with its group, or with none
ResponseEdges(n) ==
    {[node |-> Put(Put(Put(RemoteTagFields, "name", name), "id", "t" \o ToString(n)),
                   "tagGroup", group)] :
        name \in TagNames, group \in ResponseGroups \cup {NullRef}}

\* the responses of k edges
RECURSIVE Responses(_)
Responses(k) ==
    IF k = 0 THEN {<<>>}
    ELSE {Append(r, e) : r \in Responses(k - 1), e \in ResponseEdges(k)}

FetchInit ==
    /\ Idle
    /\ remoteGroups = {}
    /\ remoteTags = {}
    /\ disk = <<>>
    /\ fetched = <<>>
    /\ refetched = <<>>
    /\ \E k \in 0..MaxEdges : response \in Responses(k)

\* lines 30-50 for the response, with erase_id True or False
Fetch ==
    /\ pc = "idle"
    /\ \E erase_id \in BOOLEAN :
        /\ fetched' = FetchTagGroups(response, erase_id)
        /\ pc' = IF erase_id THEN "fetched without ids" ELSE "fetched with ids"
    /\ UNCHANGED <<remoteGroups, remoteTags, nextId, disk, run, current, desired,
                   curTags, i, j, calls, atStart, response, refetched>>

\* lines 30-50 for the same response with the other value of erase_id (a
\* backup fetches with erase_id True, a restore with erase_id False)
FetchOtherWay ==
    /\ pc \in {"fetched without ids", "fetched with ids"}
    /\ refetched' = FetchTagGroups(response, pc = "fetched with ids")
    /\ pc' = "fetched both ways, first " \o (IF pc = "fetched with ids" THEN "with ids"
                                             ELSE "without ids")
    /\ UNCHANGED <<remoteGroups, remoteTags, nextId, disk, run, current, desired,
                   curTags, i, j, calls, atStart, response, fetched>>

FetchNext ==
    \/ Fetch
    \/ FetchOtherWay

FetchSpec == FetchInit /\ [][FetchNext]_vars

HasFetched == pc \in {"fetched without ids", "fetched with ids"}

\* the name of the group a fetch files the tag of the edge under
FiledUnder(edge) ==
    IF DOMAIN edge.node.tagGroup = {} THEN "__OTHER_TAGS__"
    ELSE edge.node.tagGroup.name

\* the tag of the edge as a fetch returns it
ReturnedTag(edge) ==
    LET dropped == IF pc = "fetched without ids" THEN {"tagGroup", "id"}
                   ELSE {"tagGroup"}
    IN  [f \in DOMAIN edge.node \ dropped |-> edge.node[f]]

\* how often the tag is in the response under the group name
TimesInResponse(g, tag) ==
    Cardinality({n \in 1..Len(response) :
                    FiledUnder(response[n]) = g /\ ReturnedTag(response[n]) = tag})

\* how often the tag is in the fetched groups under the group name
TimesFetched(g, tag) ==
    Cardinality({p \in {p \in (1..Len(fetched)) \X (1..MaxEdges + 1) :
                            p[2] <= Len(fetched[p[1]].tags)} :
                    fetched[p[1]].name = g /\ fetched[p[1]].tags[p[2]] = tag})

\* position of a name in Python's string order
NamePosition(name) ==
    CASE name = "High" -> 1
      [] name = "Legacy" -> 2
      [] name = "Low" -> 3
      [] name = "Risk" -> 4
      [] name = "__OTHER_TAGS__" -> 5

\* C10: the tags of the fetched groups are the tags of the response, each as
\* often as there and under the group its group reference names; the fetched
\* groups have distinct names in ascending order, and the tags of each group
\* are in ascending order of name.
C10_FetchNormalization ==
    HasFetched =>
        /\ \A n \in 1..Len(response) :
            TimesFetched(FiledUnder(response[n]), ReturnedTag(response[n]))
                = TimesInResponse(FiledUnder(response[n]), ReturnedTag(response[n]))
        /\ \A m \in 1..Len(fetched) :
            /\ \A k \in 1..Len(fetched[m].tags) :
                TimesFetched(fetched[m].name, fetched[m].tags[k])
                    = TimesInResponse(fetched[m].name, fetched[m].tags[k])
            /\ \A k, l \in 1..Len(fetched[m].tags) :
                k < l => NamePosition(fetched[m].tags[k].name)
                            <= NamePosition(fetched[m].tags[l].name)
        /\ \A m, n \in 1..Len(fetched) :
            m < n => NamePosition(fetched[m].name) < NamePosition(fetched[n].name)

\* C10 witness: three edges fetched into two groups, one of them with two
\* tags that the response listed in descending order.
C10_Witness ==
    /\ HasFetched
    /\ Len(response) = 3
    /\ Len(fetched) = 2
    /\ \E m, n \in 1..Len(response) :
        /\ m < n
        /\ FiledUnder(response[m]) = FiledUnder(response[n])
        /\ response[m].node.name = "Low"
        /\ response[n].node.name = "High"

----------------------------------------------------------------------------
(* The synthetic group and the ids of a fetch *)

\* the response was fetched both ways
FetchedBoth ==
    pc \in {"fetched both ways, first with ids", "fetched both ways, first without ids"}

\* what the fetch with erase_id False returned, and with erase_id True
WithIds == IF pc = "fetched both ways, first with ids" THEN fetched ELSE refetched
WithoutIds == IF pc = "fetched both ways, first with ids" THEN refetched ELSE fetched

\* the edges of the response whose tag has no group
NullEdges == {n \in 1..Len(response) : DOMAIN response[n].node.tagGroup = {}}

\* the tag of the n-th edge without its group reference, and without its id
\* when the ids are erased
TagOfEdge(n, erased) ==
    [f \in DOMAIN response[n].node \ (IF erased THEN {"tagGroup", "id"} ELSE {"tagGroup"})
        |-> response[n].node[f]]

\* the groups of the result are as the claim says for the tags without a group
SentinelIsolated(result, erased) ==
    LET sentinels == {m \in 1..Len(result) : result[m].name = "__OTHER_TAGS__"}
    IN  NullEdges # {} =>
            /\ Cardinality(sentinels) = 1
            /\ \A m \in sentinels :
                /\ "id" \in DOMAIN result[m] => result[m].id = "None"
                /\ \A n \in NullEdges :
                    \E k \in 1..Len(result[m].tags) :
                        result[m].tags[k] = TagOfEdge(n, erased)

\* C11 (as claimed): for every response and both values of erase_id, the tags
\* with a null group reference are all under one group named "__OTHER_TAGS__"
\* whose id is absent or null, also when the response has a real group of
\* that name.
C11_SentinelIsolation ==
    FetchedBoth => SentinelIsolated(WithIds, FALSE) /\ SentinelIsolated(WithoutIds, TRUE)

\* C11, what the code does achieve: the same when no tag group of the
\* response is itself named "__OTHER_TAGS__".
C11_SentinelIsolationOfOwnName ==
    (FetchedBoth /\ \A n \in 1..Len(response) :
                        n \notin NullEdges
                            => response[n].node.tagGroup.name # "__OTHER_TAGS__")
        => SentinelIsolated(WithIds, FALSE) /\ SentinelIsolated(WithoutIds, TRUE)

\* the ids the response reports for a tag group of the name
ReportedGroupIds(name) ==
    {response[n].node.tagGroup.id :
        n \in {n \in 1..Len(response) \ NullEdges : response[n].node.tagGroup.name = name}}

\* C12: the fetch with erase_id True returns no group and no tag with an id
\* field; the fetch with erase_id False returns every tag of the response
\* with the id the response reports for it, and every real group with an id
\* the response reports for a group of its name; with the id fields taken
\* out of the second result the two results are equal, and no tag keeps its
\* group reference.
C12_EraseIdContract ==
    FetchedBoth =>
        /\ \A m \in 1..Len(WithoutIds) :
            /\ "id" \notin DOMAIN WithoutIds[m]
            /\ \A k \in 1..Len(WithoutIds[m].tags) :
                    DOMAIN WithoutIds[m].tags[k] \cap {"id", "tagGroup"} = {}
        /\ \A m \in 1..Len(WithIds) :
            /\ WithIds[m].name # "__OTHER_TAGS__" =>
                    /\ "id" \in DOMAIN WithIds[m]
                    /\ WithIds[m].id \in ReportedGroupIds(WithIds[m].name)
            /\ \A k \in 1..Len(WithIds[m].tags) :
                /\ DOMAIN WithIds[m].tags[k] \cap {"id", "tagGroup"} = {"id"}
                /\ \E n \in 1..Len(response) :
                    /\ response[n].node.id = WithIds[m].tags[k].id
                    /\ response[n].node.name = WithIds[m].tags[k].name
        /\ \A n \in 1..Len(response) :
            \E m \in 1..Len(WithIds) :
                \E k \in 1..Len(WithIds[m].tags) :
                    WithIds[m].tags[k].id = response[n].node.id
        /\ [m \in DOMAIN WithIds |->
                [f \in DOMAIN WithIds[m] \ {"id"} |->
                    IF f = "tags"
                    THEN [k \in DOMAIN WithIds[m].tags |->
                            [h \in DOMAIN WithIds[m].tags[k] \ {"id"} |->
                                WithIds[m].tags[k][h]]]
                    ELSE WithIds[m][f]]]
            = WithoutIds

\* C12 witness: a response of three edges fetched both ways, with a tag
\* without a group and two real groups.
C12_Witness ==
    /\ FetchedBoth
    /\ Len(response) = 3
    /\ Len(WithIds) = 3
    /\ Len(WithoutIds) = 3
    /\ NullEdges # {}
    /\ \E m \in 1..Len(WithIds) : WithIds[m].id = "g2"

----------------------------------------------------------------------------
(* A remote call that fails *)

\* the calls that failed
FailedCalls == {n \in 1..Len(calls) : ~calls[n].ok}

\* what a call that succeeded did is on the service
EffectRemains(call) ==
    CASE call.op = "createTagGroup" ->
            \E g \in remoteGroups : g.id = call.id /\ g.name = call.arg.name
      [] call.op = "createTag" ->
            \E t \in remoteTags :
                /\ t.id = call.id
                /\ t.name = call.arg.name
                /\ t.tagGroupId = call.variables.tagGroupId
      [] call.op = "updateTagGroup" ->
            \E g \in remoteGroups : g.id = call.variables.id /\ CarriesGroup(g, call.arg)
      [] call.op = "updateTag" ->
            \E t \in remoteTags : t.id = call.variables.id /\ CarriesTag(t, call.arg)
      [] call.op = "deleteTagGroup" ->
            \A g \in remoteGroups : g.id # call.variables.id
      [] call.op = "deleteTag" ->
            \A t \in remoteTags : t.id # call.variables.id
      [] OTHER -> TRUE

\* C13: a call that failed, whether by a bad status, an errors field or a
\* response without data, is the last call issued and the run has ended in
\* the error state; what the calls that succeeded before it did is still on
\* the service.
C13_AbortOnFirstFailure ==
    \A n \in FailedCalls :
        /\ calls[n].outcome \in {"bad status", "errors", "no data"}
        /\ n = Len(calls)
        /\ pc = "error"
        /\ \A m \in 1..(n - 1) : calls[m].ok /\ EffectRemains(calls[m])

\* C13 witness: a run that ended with a failed call after a create, an update
\* and a delete call had succeeded.
C13_Witness ==
    /\ pc = "error"
    /\ FailedCalls = {Len(calls)}
    /\ \E k, l, m \in 1..Len(calls) :
        /\ calls[k].op = "createTag" /\ calls[k].ok
        /\ calls[l].op = "updateTagGroup" /\ calls[l].ok
        /\ calls[m].op = "deleteTag" /\ calls[m].ok

\* C13, the three kinds of failure (here of a mutation after the fetch)
C13_WitnessBadStatus ==
    pc = "error" /\ Len(calls) > 1 /\ calls[Len(calls)].outcome = "bad status"

C13_WitnessErrors ==
    pc = "error" /\ Len(calls) > 1 /\ calls[Len(calls)].outcome = "errors"

C13_WitnessNoData ==
    pc = "error" /\ Len(calls) > 1 /\ calls[Len(calls)].outcome = "no data"

----------------------------------------------------------------------------
(* A fetch that fails, and the backup *)

\* the fetch of the run failed
FetchFailed == Len(calls) > 0 /\ calls[1].op = "listTags" /\ ~calls[1].ok

\* C14: when the listTags call fails there is no list of current groups; a
\* backup leaves the snapshot as it was, a restore issues no mutation call,
\* and the run has ended in the error state.
C14_FailedFetchYieldsNothing ==
    FetchFailed =>
        /\ pc = "error"
        /\ current = <<>>
        /\ desired = <<>>
        /\ disk = atStart.disk
        /\ Len(calls) = 1

\* C14 witness: a backup whose fetch failed, over a snapshot and a service
\* that both hold groups with tags.
C14_Witness ==
    /\ FetchFailed
    /\ calls[1].action = "backup"
    /\ Len(disk) = 2
    /\ remoteTags # {}

\* C14, the other case: a restore whose fetch failed, with work to do.
C14_WitnessRestore ==
    /\ FetchFailed
    /\ calls[1].action = "restore"
    /\ Len(disk) = 2
    /\ remoteTags # {}

\* a backup run was started
BackupRun == Len(calls) > 0 /\ calls[1].action = "backup"

\* the tag of the service as a snapshot lists it: neither id nor group id
SnapshotTag(t) == [f \in DOMAIN t \ {"id", "tagGroupId"} |-> t[f]]

\* the group of the snapshot lists exactly the tags the group named so owns
\* on the service, ascending by name
SnapshotTagsOf(d) ==
    /\ Range(d.tags) =
            {SnapshotTag(t) : t \in {t \in remoteTags :
                                        NameOfGroup(remoteGroups, t.tagGroupId) = d.name}}
    /\ Len(d.tags) = Cardinality(Range(d.tags))
    /\ \A k, l \in 1..Len(d.tags) :
            k < l => NamePosition(d.tags[k].name) < NamePosition(d.tags[l].name)

\* C20: a backup run issues exactly one remote call, the listTags query, and
\* leaves the service as it was; when the run has succeeded the snapshot
\* lists, without any id and ascending by name, the groups that own a tag on
\* the service with their fields and their tags (the tags without a group
\* under "__OTHER_TAGS__").
C20_BackupReadOnly ==
    BackupRun =>
        /\ Len(calls) = 1
        /\ calls[1].op = "listTags"
        /\ remoteGroups = atStart.groups
        /\ remoteTags = atStart.tags
        /\ pc \in {"backed up", "error"}
        /\ pc = "backed up" <=> calls[1].ok
        /\ pc = "backed up" =>
            /\ {d.name : d \in Range(disk)} =
                    {NameOfGroup(remoteGroups, t.tagGroupId) : t \in remoteTags}
            /\ \A k, l \in 1..Len(disk) :
                    k < l => NamePosition(disk[k].name) < NamePosition(disk[l].name)
            /\ \A d \in Range(disk) :
                /\ SnapshotTagsOf(d)
                /\ IF d.name = "__OTHER_TAGS__" THEN DOMAIN d = {"name", "tags"}
                   ELSE \E g \in remoteGroups :
                            /\ g.name = d.name
                            /\ DOMAIN d = (DOMAIN g \ {"id"}) \cup {"tags"}
                            /\ \A f \in DOMAIN g \ {"id"} : d[f] = g[f]

\* C20 witness: a backup that succeeded on a service with two tags, one of
\* them without a group, over an empty snapshot.
C20_Witness ==
    /\ BackupRun
    /\ pc = "backed up"
    /\ atStart.disk = <<>>
    /\ Len(disk) = 2
    /\ \E t \in remoteTags : t.tagGroupId = "None"
    /\ \E t \in remoteTags : t.tagGroupId # "None"

----------------------------------------------------------------------------
(* The tags of a desired group *)

\* the calls of the operation made for the tag named t while the loops were
\* at the desired group named g
TagCalls(op, g, t) ==
    CallsOfRun(LAMBDA x : x.op = op /\ x.group = g /\ x.arg.name = t)

\* the tags of the current group named g (none when there is no such group)
CurrentTagsOf(g) ==
    UNION {Range(Get(c, "tags", <<>>)) : c \in {c \in Range(current) : c.name = g}}

\* the create-tag calls made for the desired group d are for tags not among
\* the current tags of its name and carry the id of the current group of its
\* name, if there is one, and null if d is the synthetic group
CreatesUnderResolvedId(d) ==
    \A n \in 1..Len(calls) :
        (calls[n].run = run /\ calls[n].op = "createTag" /\ calls[n].group = d.name) =>
            /\ \A t \in CurrentTagsOf(d.name) : t.name # calls[n].arg.name
            /\ \A c \in Range(current) :
                    c.name = d.name => calls[n].variables.tagGroupId = c.id
            /\ d.name = "__OTHER_TAGS__" => calls[n].variables.tagGroupId = "None"

\* the run having completed, every tag of the desired group d was created or
\* updated and every current tag of its name that d does not list was deleted
TagsReconciled(d) ==
    /\ \A t \in Range(Get(d, "tags", <<>>)) :
        IF \E ct \in CurrentTagsOf(d.name) : ct.name = t.name
        THEN /\ Len(TagCalls("updateTag", d.name, t.name)) = 1
             /\ Len(TagCalls("createTag", d.name, t.name)) = 0
             /\ \E ct \in CurrentTagsOf(d.name) :
                    /\ ct.name = t.name
                    /\ TagCalls("updateTag", d.name, t.name)[1].variables.id = ct.id
        ELSE /\ Len(TagCalls("createTag", d.name, t.name)) = 1
             /\ Len(TagCalls("updateTag", d.name, t.name)) = 0
    /\ \A ct \in CurrentTagsOf(d.name) :
        Len(CallsOfRun(LAMBDA x : /\ x.op = "deleteTag"
                                  /\ x.group = d.name
                                  /\ x.variables.id = ct.id))
            = IF \E t \in Range(Get(d, "tags", <<>>)) : t.name = ct.name THEN 0 ELSE 1

\* C15 (as claimed): for every desired group, real or synthetic, the tags
\* not found among the current tags are created under the id of the matched
\* current group, and under null for the synthetic group whether matched or
\* not; when the run has completed every desired tag was created or updated
\* and every current tag of the group absent from the desired tags deleted.
C15_TagsUnderResolvedId ==
    Fetched =>
        \A d \in Range(disk) :
            /\ CreatesUnderResolvedId(d)
            /\ Completed => TagsReconciled(d)

\* C15, what the code does achieve: the same when no tag of the service is
\* owned by a tag group that is itself named "__OTHER_TAGS__".
C15_TagsUnderNullSentinel ==
    (Fetched /\ \A t \in atStart.tags :
                    \A g \in atStart.groups :
                        g.id = t.tagGroupId => g.name # "__OTHER_TAGS__") =>
        \A d \in Range(disk) :
            /\ CreatesUnderResolvedId(d)
            /\ Completed => TagsReconciled(d)

----------------------------------------------------------------------------
(* The two loops of a run *)

\* the ids of the tags of the current groups that no desired group matches
UnmatchedTagIds ==
    UNION {{t.id : t \in Range(Get(c, "tags", <<>>))} :
                c \in {c \in Range(current) : c.name \notin DesiredNames}}

\* the call removes an unmatched current group or one of its tags
Removal(x) ==
    \/ x.op = "deleteTagGroup"
    \/ x.op = "deleteTag" /\ x.variables.id \in UnmatchedTagIds

\* the place of the group named g in the desired list
PlaceInDesired(g) == CHOOSE n \in 1..Len(disk) : disk[n].name = g

\* the mutation calls of the run, by their place in the call log
MutationCalls == {n \in 1..Len(calls) : calls[n].run = run /\ calls[n].op # "listTags"}

\* C16: no call for a desired group (create-group, update-group, and the
\* create, update and delete calls of its tags) is issued after a call that
\* removes an unmatched current group or one of its tags; the calls for the
\* desired groups follow the order of the desired list, and a group's own
\* create or update call has no earlier call for the same group.
C16_TwoPhaseOrdering ==
    Fetched =>
        /\ \A n \in MutationCalls :
            IF Removal(calls[n]) THEN calls[n].group \notin DesiredNames
            ELSE calls[n].group \in DesiredNames
        /\ \A m, n \in MutationCalls :
            m < n =>
                /\ Removal(calls[m]) => Removal(calls[n])
                /\ ~Removal(calls[n]) =>
                    /\ PlaceInDesired(calls[m].group) <= PlaceInDesired(calls[n].group)
                    /\ calls[n].op \in {"createTagGroup", "updateTagGroup"}
                            => calls[m].group # calls[n].group

\* C16 witness: a completed run that made calls for two desired groups, the
\* tags of one of them created, updated or deleted, and then removed an
\* unmatched current group with its tag.
C16_Witness ==
    /\ Completed
    /\ Cardinality({calls[n].group : n \in {n \in MutationCalls : ~Removal(calls[n])}}) = 2
    /\ \E n \in MutationCalls : calls[n].op \in {"createTagGroup", "updateTagGroup"}
    /\ \E n \in MutationCalls : calls[n].op \in {"createTag", "updateTag"}
    /\ \E n \in MutationCalls : calls[n].op = "deleteTag" /\ Removal(calls[n])
    /\ \E n \in MutationCalls : calls[n].op = "deleteTagGroup"

----------------------------------------------------------------------------
(* Matching by name *)

\* the tags of the current group named g, in their order (none when there
\* is no such group)
CurrentTagList(g) ==
    IF \E c \in Range(current) : c.name = g
    THEN Get(CHOOSE c \in Range(current) : c.name = g, "tags", <<>>)
    ELSE <<>>

\* the record with the id is the earliest record of the list with the name
IsFirstOfName(list, name, id) ==
    \E k \in 1..Len(list) :
        /\ list[k].name = name
        /\ list[k].id = id
        /\ \A m \in 1..(k - 1) : list[m].name # name

\* the names of the tags of the desired group d
TagNamesOf(d) == {t.name : t \in Range(Get(d, "tags", <<>>))}

\* the call is the one the matching rule asks for
MatchedAsRuled(x) ==
    CASE x.op = "updateTag" ->
            IsFirstOfName(CurrentTagList(x.group), x.arg.name, x.variables.id)
      [] x.op = "createTag" ->
            \A t \in Range(CurrentTagList(x.group)) : t.name # x.arg.name
      [] x.op = "updateTagGroup" -> IsFirstOfName(current, x.arg.name, x.variables.id)
      [] x.op = "createTagGroup" -> \A c \in Range(current) : c.name # x.arg.name
      [] x.op = "deleteTag" ->
            /\ \E t \in Range(CurrentTagList(x.group)) :
                    t.id = x.variables.id /\ t.name = x.arg.name
            /\ x.group \in DesiredNames =>
                    \E d \in Range(disk) :
                        d.name = x.group /\ x.arg.name \notin TagNamesOf(d)
      [] x.op = "deleteTagGroup" ->
            /\ x.arg.name \notin DesiredNames
            /\ \E c \in Range(current) : c.id = x.variables.id /\ c.name = x.arg.name
      [] OTHER -> TRUE

\* a call of the operation with the id was made in this run
CalledOn(op, id) ==
    \E n \in 1..Len(calls) :
        calls[n].run = run /\ calls[n].op = op /\ calls[n].variables.id = id

\* C17: names match by exact equality only.  An update call carries the id
\* of the earliest current record of the name, a create call is made only
\* when no current record has the name; a current tag is deleted if and only
\* if a desired group of its group's name lists no tag of its name, or no
\* desired group has its group's name; a current group is deleted if and
\* only if no desired group has its name (the if-parts once the run has
\* completed).
C17_FirstMatchWins ==
    Fetched =>
        /\ \A n \in MutationCalls : MatchedAsRuled(calls[n])
        /\ Completed =>
            \A c \in Range(current) :
                /\ (c.name # "__OTHER_TAGS__") =>
                        (CalledOn("deleteTagGroup", c.id) <=> c.name \notin DesiredNames)
                /\ \A ct \in Range(Get(c, "tags", <<>>)) :
                        CalledOn("deleteTag", ct.id) <=>
                            \/ c.name \notin DesiredNames
                            \/ \E d \in Range(disk) :
                                    d.name = c.name /\ ct.name \notin TagNamesOf(d)
        /\ Completed =>
            \A d \in Range(disk) :
                \A t \in Range(Get(d, "tags", <<>>)) :
                    IF \E ct \in Range(CurrentTagList(d.name)) : ct.name = t.name
                    THEN Len(TagCalls("updateTag", d.name, t.name)) > 0
                    ELSE Len(TagCalls("createTag", d.name, t.name)) > 0

\* C17 witness: a completed run that updated a tag whose name two current
\* tags of the group bear.
C17_Witness ==
    /\ Completed
    /\ \E n \in MutationCalls :
        /\ calls[n].op = "updateTag"
        /\ Cardinality({k \in 1..Len(CurrentTagList(calls[n].group)) :
                CurrentTagList(calls[n].group)[k].name = calls[n].arg.name}) = 2

\* C17, case: a completed run that created the tag "high" and deleted the
\* current tag "High" of the same group.
C17_WitnessCase ==
    /\ Completed
    /\ \E m, n \in MutationCalls :
        /\ calls[m].op = "createTag" /\ calls[m].arg.name = "high"
        /\ calls[n].op = "deleteTag" /\ calls[n].arg.name = "High"
        /\ calls[m].group = calls[n].group

\* C17, the desired list searched: a completed run whose snapshot lists two
\* groups of one name.
C17_WitnessDesiredTwice ==
    /\ Completed
    /\ Len(disk) = 2
    /\ disk[1].name = disk[2].name
    /\ \E c \in Range(current) : c.name = disk[1].name

----------------------------------------------------------------------------
(* Calls on records that are gone *)

\* no two records of the list have the same name
UniqueNames(list) ==
    \A k, l \in 1..Len(list) : k # l => list[k].name # list[l].name

\* names are unique among the desired groups, among the current groups and
\* among the tags of each group
NamesUnique ==
    /\ UniqueNames(disk)
    /\ UniqueNames(current)
    /\ \A d \in Range(disk) : UniqueNames(Get(d, "tags", <<>>))
    /\ \A c \in Range(current) : UniqueNames(Get(c, "tags", <<>>))

UpdatesAndDeletes == {"updateTagGroup", "updateTag", "deleteTagGroup", "deleteTag"}

\* C18: with unique names, no two update or delete calls of a run name the
\* same id (so none names an id that an earlier call deleted), and no
\* create-tag call carries the id of a group that an earlier call deleted.
C18_NoCallOnDeleted ==
    (Fetched /\ NamesUnique) =>
        \A m, n \in MutationCalls :
            m < n =>
                /\ (calls[m].op \in UpdatesAndDeletes /\ calls[n].op \in UpdatesAndDeletes)
                        => calls[m].variables.id # calls[n].variables.id
                /\ (calls[m].op = "deleteTagGroup" /\ calls[n].op = "createTag")
                        => calls[n].variables.tagGroupId # calls[m].variables.id

\* C18 witness: a completed run over unique names that updated, created and
\* deleted tags and deleted a group.
C18_Witness ==
    /\ Completed
    /\ NamesUnique
    /\ \E n \in MutationCalls : calls[n].op = "updateTag"
    /\ \E n \in MutationCalls : calls[n].op = "createTag"
    /\ \E n \in MutationCalls : calls[n].op = "deleteTag"
    /\ \E n \in MutationCalls : calls[n].op = "deleteTagGroup"

\* C18 without its proviso does not hold: two desired tags of one name are
\* matched to the same current tag, which is then updated twice.
C18_WithoutProviso ==
    Fetched =>
        \A m, n \in MutationCalls :
            (m < n /\ calls[m].op \in UpdatesAndDeletes /\ calls[n].op \in UpdatesAndDeletes)
                => calls[m].variables.id # calls[n].variables.id

----------------------------------------------------------------------------
(* The groups a fetch lists *)

\* the tag groups of the service that owned no tag when the run began
TaglessAtStart == {g \in atStart.groups : \A t \in atStart.tags : t.tagGroupId # g.id}

\* C19: the current groups a restore works on are the groups that some tag
\* of the service referred to when the run began, and the synthetic group if
\* and only if some tag had no group; each has at least one tag, and a tag
\* group of the service that owned no tag is not among them.
C19_GroupsOnlyThroughTags ==
    Fetched =>
        /\ {c.name : c \in Range(current)} =
                {NameOfGroup(atStart.groups, t.tagGroupId) : t \in atStart.tags}
        /\ \A c \in Range(current) :
            /\ Len(c.tags) > 0
            /\ c.name # "__OTHER_TAGS__" =>
                    \E g \in atStart.groups \ TaglessAtStart :
                        g.id = c.id /\ g.name = c.name
            /\ \A t \in Range(c.tags) :
                    \E r \in atStart.tags :
                        /\ r.id = t.id
                        /\ NameOfGroup(atStart.groups, r.tagGroupId) = c.name
        /\ \A g \in TaglessAtStart :
                \A c \in Range(current) : c.id # g.id /\ c.name # g.name

\* C19 witness: a fetch on a service with a group that owns no tag, a group
\* that owns one and a tag without a group.
C19_Witness ==
    /\ Fetched
    /\ TaglessAtStart # {}
    /\ Len(current) = 2
    /\ \E c \in Range(current) : c.name = "__OTHER_TAGS__"
    /\ \E c \in Range(current) : c.name # "__OTHER_TAGS__"

\* C19 for any response: a group name is in the fetched list if and only if
\* an edge of the response is filed under it, and every fetched group has a
\* tag.
C19_FetchedIffReferenced ==
    HasFetched =>
        /\ {fetched[m].name : m \in 1..Len(fetched)} =
                {FiledUnder(response[n]) : n \in 1..Len(response)}
        /\ \A m \in 1..Len(fetched) : Len(fetched[m].tags) > 0

====
